---- MODULE Spec2Model ----
(***************************************************************************)
(* Model of the browser-backed scraping engine of rs-rag-svc:              *)
(*   src/src/scraper.rs            WebScraper (new, scrape_text,           *)
(*                                 wait_for_page_load)                     *)
(*   src/src/agent_workflow/mod.rs ScraperSingleton (SCRAPER_INSTANCE)     *)
(*   src/src/app.rs                create_app                              *)
(*                                                                         *)
(* The headless_chrome browser is the environment.  A browser process is   *)
(* an entry of procs (TRUE while the OS process runs); a tab is an entry   *)
(* of tabs.  A browser operation succeeds only on a running process / an   *)
(* open tab, and may fail there too (a timeout, a protocol error): every   *)
(* such environment fault, and every crash of a process, is counted in     *)
(* faults and bounded by MaxFaults.  Dropping a Browser handle kills its   *)
(* process and with it all its tabs.                                       *)
(*                                                                         *)
(* scrape_text calls are futures.  The calls of one batch are polled by    *)
(* one task (futures::future::join_all in DataRetrieverTask::run), so      *)
(* within a task one call runs at a time and hands over only at an await   *)
(* that is pending; different tasks run in parallel (#[tokio::main]).      *)
(* A pending future may be dropped by its caller (cancellation).           *)
(*                                                                         *)
(* SpecFair is Spec with weak fairness of the steps of each call: the      *)
(* runtime polls the futures that can go on and browser operations return. *)
(*                                                                         *)
(* Further specifications, each with its own initial states and steps:     *)
(*   SpecRun      DataRetrieverTask::run and GenerateAnswerTask::run over  *)
(*                the Context, the search and the scrapes being the        *)
(*                environment (agent_workflow/data_retriever.rs,           *)
(*                generate.rs);                                            *)
(*   SpecUrl      is_scrapeable_url applied to URLs, character by          *)
(*                character;                                               *)
(*   SpecExtract  WebScraper::extract_text applied to HTML sources.        *)
(***************************************************************************)
EXTENDS Integers, Sequences, FiniteSets, TLC

\* Number of scrape_text calls.
NCalls == 2
\* Environment faults (process crashes, failed launches, failed browser operations).
MaxFaults == 2

Calls == 1..NCalls

\* A task polls the calls of one batch (one join_all); call c is in one of the
\* tasks 1..c, so every grouping of the calls into batches occurs.
Tasks == 1..NCalls

\* A call scrapes the page of its own URL, c, or URL 0, which no navigation reaches.
Reachable(u) == u # 0

VARIABLES
    app,              \* position of create_app
    SCRAPER_INSTANCE, \* the OnceCell: FALSE until ScraperSingleton::init set it
    browser,          \* the Browser stored in the singleton scraper's Mutex (a process id)
    extension,        \* the Browser of the scraper create_app passes to Extension (0: none)
    guard,            \* holder of the Mutex<Browser> guard (0: free)
    procs,            \* procs[p]: browser process p is running
    tabs,             \* tabs[t]: [proc, page, open] of every tab ever created
    faults,           \* environment faults so far
    task,             \* task[c]: the task that polls call c
    cur,              \* cur[t]: the call task t is polling right now (0: none)
    pc,               \* position of each scrape_text call
    url,              \* the url argument of each call
    tab,              \* the local `tab` of each call (0: none yet)
    new_browser,      \* the local `new_browser` of each call (0: none)
    result,           \* the value each call returns
    opens,            \* new_tab attempts made by each call
    launches,         \* Browser::new attempts made by each call
    closes,           \* close_target invocations made by each call
    did,              \* the steps each call performed
    failed,           \* the steps of each call that returned an error
    seen,             \* the probes of each call that reported true
    readiness,        \* the readiness wait of each call: the evaluate and the 2000 ms
    context,          \* the task graph's Context: the values stored under its keys
    run_pc,           \* position of DataRetrieverTask::run
    search_response,  \* the links of search_response.organic, in order
    scraped,          \* the outcome of the scrape of each scrapeable result, once it is there
    run_result,       \* the value DataRetrieverTask::run returns
    generate_result,  \* the value GenerateAnswerTask::run returns
    test_result,      \* the outcome of tests::test_data_retriever_task
    searched,         \* retrieve_data was called
    got_scraper,      \* ScraperSingleton::get was called
    invoked,          \* the links scrape_text was invoked with, in order
    arg,              \* the argument of the function under study
    ret,              \* what it returned: <<>> before the call, <<value>> after
    removed           \* the extension strip_extension took off arg (<<>>: none)

scraperVars == <<app, SCRAPER_INSTANCE, browser, extension, guard, procs, tabs, faults,
                 task, cur, pc, url, tab, new_browser, result, opens, launches, closes,
                 did, failed, seen, readiness>>
runVars == <<context, run_pc, search_response, scraped, run_result, generate_result,
             test_result, searched, got_scraper, invoked>>
fnVars == <<arg, ret, removed>>
\* The variables of the workflow task and of the pure functions, which the
\* scraping engine leaves alone.
restVars == <<runVars, fnVars>>

vars == <<scraperVars, runVars, fnVars>>

envVars == <<procs, tabs, faults>>
appVars == <<app, SCRAPER_INSTANCE, extension, task>>
histVars == <<opens, launches, closes, did, failed>>
loadVars == <<seen, readiness>>

NoResult == [kind |-> "none"]

ScraperInit ==
    /\ app = "start"
    /\ SCRAPER_INSTANCE = FALSE
    /\ browser = 0
    /\ extension = 0
    /\ guard = 0
    /\ procs = <<>>
    /\ tabs = <<>>
    /\ faults = 0
    /\ task = [c \in Calls |-> c]
    /\ cur = [t \in Tasks |-> 0]
    /\ pc = [c \in Calls |-> "idle"]
    /\ url = [c \in Calls |-> 0]
    /\ tab = [c \in Calls |-> 0]
    /\ new_browser = [c \in Calls |-> 0]
    /\ result = [c \in Calls |-> NoResult]
    /\ opens = [c \in Calls |-> 0]
    /\ launches = [c \in Calls |-> 0]
    /\ closes = [c \in Calls |-> 0]
    /\ did = [c \in Calls |-> {}]
    /\ failed = [c \in Calls |-> {}]
    /\ seen = [c \in Calls |-> {}]
    /\ readiness = [c \in Calls |-> "idle"]

\* DataRetrieverTask::run has not been called.
RunIdle ==
    /\ context = <<>>
    /\ run_pc = "idle"
    /\ search_response = <<>>
    /\ scraped = <<>>
    /\ run_result = NoResult
    /\ generate_result = NoResult
    /\ test_result = NoResult
    /\ searched = FALSE
    /\ got_scraper = FALSE
    /\ invoked = <<>>

\* No pure function is under study.
FnIdle ==
    /\ arg = <<>>
    /\ ret = <<>>
    /\ removed = <<>>

Init == ScraperInit /\ RunIdle /\ FnIdle

----------------------------------------------------------------------------
\* The environment: browser processes and tabs.

Alive(p) == p \in DOMAIN procs /\ procs[p]

LiveProcs == {p \in DOMAIN procs : procs[p]}

TabOpen(t) == t \in DOMAIN tabs /\ tabs[t].open /\ Alive(tabs[t].proc)

\* Outcomes the environment can give an operation: success needs `able`,
\* a failure where it could have succeeded is a fault.
Outcomes(able) ==
    {o \in BOOLEAN : (o => able) /\ (~o /\ able => faults < MaxFaults)}

Charge(able, ok) == IF able /\ ~ok THEN faults + 1 ELSE faults

\* A drop that leaves the process running.
KillNothing(p) == procs

\* Dropping the Browser handle p kills its process.
Kill(p) == [q \in DOMAIN procs |-> procs[q] /\ q # p]

\* The browser process behind the stored handle dies.
Crash ==
    /\ faults < MaxFaults
    /\ Alive(browser)
    /\ procs' = Kill(browser)
    /\ faults' = faults + 1
    /\ UNCHANGED <<restVars, loadVars, appVars, browser, guard, tabs, cur, pc, url, tab, new_browser,
                   result, histVars>>

\* Browser::new(LaunchOptionsBuilder...): a launched process gets the next id.
BrowserNew(ok) == IF ok THEN Append(procs, TRUE) ELSE procs

----------------------------------------------------------------------------
\* Service startup (create_app).

\* ScraperSingleton::init: WebScraper::new, then SCRAPER_INSTANCE.set.
ScraperSingleton_init ==
    /\ app = "start"
    /\ \E ok \in Outcomes(TRUE) :
        /\ procs' = BrowserNew(ok)
        /\ faults' = Charge(TRUE, ok)
        /\ browser' = IF ok THEN Len(procs) + 1 ELSE browser
        /\ SCRAPER_INSTANCE' = ok
        /\ app' = IF ok THEN "init_done" ELSE "failed"
    /\ UNCHANGED <<restVars, loadVars, extension, task, guard, tabs, cur, pc, url, tab, new_browser,
                   result, histVars>>

\* The WebScraper::new that follows in create_app; its scraper goes to Extension.
create_app_new ==
    /\ app = "init_done"
    /\ \E ok \in Outcomes(TRUE) :
        /\ procs' = BrowserNew(ok)
        /\ faults' = Charge(TRUE, ok)
        /\ extension' = IF ok THEN Len(procs) + 1 ELSE extension
        /\ app' = IF ok THEN "ready" ELSE "failed"
    /\ UNCHANGED <<restVars, loadVars, SCRAPER_INSTANCE, task, browser, guard, tabs, cur, pc, url, tab,
                   new_browser, result, histVars>>

----------------------------------------------------------------------------
\* Scheduling of the scrape_text futures.

\* Positions where the future is pending at an await.
Pending == {"delay", "lockwait", "settle", "extra"}

TaskFree(c) == cur[task[c]] = 0

\* The task keeps polling the call until it is pending or has returned.
Sched(c, next) ==
    [cur EXCEPT ![task[c]] = IF next \in Pending \cup {"done"} THEN 0 ELSE c]

\* The caller drops a pending future.
Cancel(c) ==
    /\ pc[c] \in Pending
    /\ TaskFree(c)
    /\ pc' = [pc EXCEPT ![c] = "cancelled"]
    /\ UNCHANGED <<restVars, loadVars, appVars, envVars, browser, guard, cur, url, tab, new_browser,
                   result, histVars>>

----------------------------------------------------------------------------
\* WebScraper::scrape_text, up to the end of the block that yields `tab`.

Step(c, s) == [did EXCEPT ![c] = @ \cup {s}]

Fail(c, s, ok) == IF ok THEN failed ELSE [failed EXCEPT ![c] = @ \cup {s}]

Err(kind, u) == [kind |-> kind, url |-> u]

\* The call is first polled, by the task of its batch: it runs up to
\* sleep(200 ms), which is pending.
Start(c) ==
    /\ app = "ready"
    /\ SCRAPER_INSTANCE
    /\ pc[c] = "idle"
    /\ \E t \in 1..c :
        /\ cur[t] = 0
        /\ task' = [task EXCEPT ![c] = t]
    /\ \E u \in {0, c} : url' = [url EXCEPT ![c] = u]
    /\ pc' = [pc EXCEPT ![c] = "delay"]
    /\ UNCHANGED <<restVars, loadVars, app, SCRAPER_INSTANCE, extension, envVars, browser, guard, cur, tab,
                   new_browser, result, histVars>>

\* A lock that excludes no one.
CanAcquireAlways(c) == TRUE

\* self.browser.lock() yields the guard when no one holds it.
CanAcquire(c) == guard = 0

\* The politeness delay is over, the call is polled and self.browser.lock().await
\* finds the guard free: the call goes on with the guard.
Acquire(c) ==
    /\ pc[c] = "delay"
    /\ TaskFree(c)
    /\ CanAcquire(c)
    /\ guard' = c
    /\ pc' = [pc EXCEPT ![c] = "new_tab"]
    /\ cur' = Sched(c, "new_tab")
    /\ UNCHANGED <<restVars, loadVars, appVars, envVars, browser, url, tab, new_browser, result, histVars>>

\* The politeness delay is over, the call is polled and self.browser.lock().await
\* finds the guard held: the future is pending again.
Block(c) ==
    /\ pc[c] = "delay"
    /\ TaskFree(c)
    /\ ~CanAcquire(c)
    /\ pc' = [pc EXCEPT ![c] = "lockwait"]
    /\ UNCHANGED <<restVars, loadVars, appVars, envVars, browser, guard, cur, url, tab, new_browser,
                   result, histVars>>

\* The guard was released: the waiting call is polled and gets it.
Resume(c) ==
    /\ pc[c] = "lockwait"
    /\ TaskFree(c)
    /\ CanAcquire(c)
    /\ guard' = c
    /\ pc' = [pc EXCEPT ![c] = "new_tab"]
    /\ cur' = Sched(c, "new_tab")
    /\ UNCHANGED <<restVars, loadVars, appVars, envVars, browser, url, tab, new_browser, result, histVars>>

\* browser.new_tab() on process p: the new tab is appended to tabs.
new_tab(p, ok) ==
    IF ok THEN Append(tabs, [proc |-> p, page |-> 0, open |-> TRUE]) ELSE tabs

\* A guard that lives as long as the call: held through the whole scrape.
GuardKept(c) == c

\* The guard when the block that yields `tab` is left with a tab: dropped.
GuardAfterOpen(c) == 0

\* A guard that outlives an error return.
GuardLeaked(c) == c

\* The guard when `?` returns from inside the block (lines 77 and 84): dropped.
GuardAfterError(c) == 0

\* match browser.new_tab(): Ok(tab) leaves the block, Err(e) goes on to recreate.
OpenTab(c) ==
    /\ pc[c] = "new_tab"
    /\ \E ok \in Outcomes(Alive(browser)) :
        /\ tabs' = new_tab(browser, ok)
        /\ faults' = Charge(Alive(browser), ok)
        /\ tab' = [tab EXCEPT ![c] = IF ok THEN Len(tabs) + 1 ELSE @]
        /\ guard' = IF ok THEN GuardAfterOpen(c) ELSE guard
        /\ pc' = [pc EXCEPT ![c] = IF ok THEN "navigate" ELSE "recreate"]
    /\ opens' = [opens EXCEPT ![c] = @ + 1]
    /\ UNCHANGED <<restVars, loadVars, appVars, procs, browser, cur, url, new_browser, result, launches,
                   closes, did, failed>>

\* Browser::new(...).context("Failed to recreate browser")?
Relaunch(c) ==
    /\ pc[c] = "recreate"
    /\ \E ok \in Outcomes(TRUE) :
        /\ procs' = BrowserNew(ok)
        /\ faults' = Charge(TRUE, ok)
        /\ new_browser' = [new_browser EXCEPT ![c] = IF ok THEN Len(procs) + 1 ELSE @]
        /\ guard' = IF ok THEN guard ELSE GuardAfterError(c)
        /\ result' = IF ok THEN result
                     ELSE [result EXCEPT ![c] = Err("BrowserUnavailable", url[c])]
        /\ pc' = [pc EXCEPT ![c] = IF ok THEN "replace" ELSE "done"]
        /\ cur' = Sched(c, IF ok THEN "replace" ELSE "done")
    /\ launches' = [launches EXCEPT ![c] = @ + 1]
    /\ UNCHANGED <<restVars, loadVars, appVars, tabs, browser, url, tab, opens, closes, did, failed>>

\* *browser = new_browser: the old Browser is dropped.
Replace(c) ==
    /\ pc[c] = "replace"
    /\ procs' = Kill(browser)
    /\ browser' = new_browser[c]
    /\ new_browser' = [new_browser EXCEPT ![c] = 0]
    /\ pc' = [pc EXCEPT ![c] = "retry"]
    /\ UNCHANGED <<restVars, loadVars, appVars, tabs, faults, guard, cur, url, tab, result, histVars>>

\* A retry loop: a failed second new_tab recreates the browser again.
AfterRetryFailLoop == "recreate"

\* Where the call goes when new_tab fails on the recreated browser: it returns.
AfterRetryFail == "done"

\* browser.new_tab().context("Failed to create new browser tab after recreation")?
RetryTab(c) ==
    /\ pc[c] = "retry"
    /\ \E ok \in Outcomes(Alive(browser)) :
        /\ tabs' = new_tab(browser, ok)
        /\ faults' = Charge(Alive(browser), ok)
        /\ tab' = [tab EXCEPT ![c] = IF ok THEN Len(tabs) + 1 ELSE @]
        /\ guard' = IF ok THEN GuardAfterOpen(c) ELSE GuardAfterError(c)
        /\ result' = IF ok THEN result
                     ELSE [result EXCEPT ![c] = Err("BrowserUnavailable", url[c])]
        /\ pc' = [pc EXCEPT ![c] = IF ok THEN "navigate" ELSE AfterRetryFail]
        /\ cur' = Sched(c, IF ok THEN "navigate" ELSE AfterRetryFail)
    /\ opens' = [opens EXCEPT ![c] = @ + 1]
    /\ UNCHANGED <<restVars, loadVars, appVars, procs, browser, url, new_browser, launches, closes, did,
                   failed>>

----------------------------------------------------------------------------
\* scrape_text after the block: the `result` async block, then close_target.

\* A `?` outside the async block: the call returns at once.
AfterNavErrorReturn == "done"

\* A navigation error that is dropped: the call goes on to the page load.
AfterNavErrorGoOn == "page_load"

\* Where the call goes when navigate_to fails: `?` leaves the async block only,
\* close_target follows.
AfterNavError == "close"

\* tab.navigate_to(url).with_context(|| format!("Failed to navigate to {}", url))?
Navigate(c) ==
    /\ pc[c] = "navigate"
    /\ LET able == TabOpen(tab[c]) /\ Reachable(url[c]) IN
       \E ok \in Outcomes(able) :
        /\ tabs' = IF ok THEN [tabs EXCEPT ![tab[c]].page = url[c]] ELSE tabs
        /\ faults' = Charge(able, ok)
        /\ result' = IF ok THEN result
                     ELSE [result EXCEPT ![c] = Err("NavigationFailed", url[c])]
        /\ pc' = [pc EXCEPT ![c] = IF ok THEN "page_load" ELSE AfterNavError]
        /\ failed' = Fail(c, "navigate", ok)
    /\ did' = Step(c, "navigate")
    /\ UNCHANGED <<restVars, loadVars, appVars, procs, browser, guard, cur, url, tab, new_browser, opens,
                   launches, closes>>

\* A body wait whose error is propagated with `?`.
wait_for_body_propagated(ok) == IF ok THEN "Ok" ELSE "Err"

\* What wait_for_page_load returns when wait_for_element("body") gave `ok`:
\* `let _ = ...` drops the outcome, so Ok(()) either way.
wait_for_body(ok) == "Ok"

\* A probe whose failure counts as true.
ProbeValuesOrTrue(ok) == IF ok THEN BOOLEAN ELSE {TRUE}

\* The value of a probe: evaluate(...).map(...).unwrap_or(false).
ProbeValues(ok) == IF ok THEN BOOLEAN ELSE {FALSE}

\* The steps of a page load that failed.
Failed(c, body, probe, wait, name) ==
    [failed EXCEPT ![c] = @ \cup (IF body THEN {} ELSE {"wait_body"})
                            \cup (IF probe THEN {} ELSE {"probe"})
                            \cup (IF wait THEN {} ELSE {name})]

\* wait_for_page_load up to the point where it waits: the body wait, the
\* challenge probe and then either sleep(3000 ms), a pending await, or the
\* readiness wait, timeout(2000 ms, async { let _ = tab.evaluate(.., true); }).
\* The block of the timeout holds no await: its first poll calls the
\* synchronous evaluate, which returns when the browser answers.
PageLoad(c) ==
    /\ pc[c] = "page_load"
    /\ LET able == TabOpen(tab[c]) IN
       \E body \in Outcomes(able) :
        IF wait_for_body(body) # "Ok"
        THEN /\ result' = [result EXCEPT ![c] = Err("PageLoadFailed", url[c])]
             /\ pc' = [pc EXCEPT ![c] = "close"]
             /\ did' = Step(c, "wait_body")
             /\ failed' = Failed(c, body, TRUE, TRUE, "ready")
             /\ faults' = Charge(able, body)
             /\ UNCHANGED <<cur, seen, readiness>>
        ELSE \E probe \in Outcomes(able) : \E is_challenge \in ProbeValues(probe) :
               IF is_challenge
               THEN /\ pc' = [pc EXCEPT ![c] = "settle"]
                    /\ cur' = Sched(c, "settle")
                    /\ did' = [did EXCEPT ![c] = @ \cup {"wait_body", "probe"}]
                    /\ failed' = Failed(c, body, probe, TRUE, "ready")
                    /\ faults' = Charge(able, body /\ probe)
                    /\ seen' = [seen EXCEPT ![c] = @ \cup {"is_challenge"}]
                    /\ UNCHANGED <<result, readiness>>
               ELSE /\ pc' = [pc EXCEPT ![c] = "ready"]
                    /\ readiness' = [readiness EXCEPT ![c] = "waiting"]
                    /\ did' = [did EXCEPT ![c] = @ \cup {"wait_body", "probe", "ready"}]
                    /\ failed' = Failed(c, body, probe, TRUE, "ready")
                    /\ faults' = Charge(able, body /\ probe)
                    /\ UNCHANGED <<result, cur, seen>>
    /\ UNCHANGED <<restVars, appVars, procs, tabs, browser, guard, url, tab, new_browser,
                   opens, launches, closes>>

\* The readiness wait is over when the block of the timeout is: when evaluate
\* has returned.  The deadline is looked at only if the block is pending, and
\* it never is.
ReadinessOver(c) == readiness[c] = "answered"

\* 2000 ms have gone by since the timeout was created.
TimerElapses(c) ==
    /\ pc[c] = "ready"
    /\ readiness[c] = "waiting"
    /\ readiness' = [readiness EXCEPT ![c] = "timed_out"]
    /\ UNCHANGED <<restVars, appVars, envVars, browser, guard, cur, pc, url, tab, new_browser,
                   result, histVars, seen>>

\* The browser answers the evaluate: the load event has come, or the call
\* failed (the tab is gone, the browser gave no answer in its own time).
EvaluateAnswers(c) ==
    /\ pc[c] = "ready"
    /\ readiness[c] \in {"waiting", "timed_out"}
    /\ \E ok \in Outcomes(TabOpen(tab[c])) :
        /\ faults' = Charge(TabOpen(tab[c]), ok)
        /\ failed' = Fail(c, "ready", ok)
    /\ readiness' = [readiness EXCEPT ![c] = "answered"]
    /\ UNCHANGED <<restVars, appVars, procs, tabs, browser, guard, cur, pc, url, tab,
                   new_browser, result, opens, launches, closes, did, seen>>

\* The timeout returns and with it wait_for_page_load: on to the content fetch.
Ready(c) ==
    /\ pc[c] = "ready"
    /\ ReadinessOver(c)
    /\ pc' = [pc EXCEPT ![c] = "content"]
    /\ readiness' = [readiness EXCEPT ![c] = "idle"]
    /\ UNCHANGED <<restVars, appVars, envVars, browser, guard, cur, url, tab, new_browser,
                   result, histVars, seen>>

\* The 3000 ms are over: the cookie probe; without the cookie sleep(2 s) starts.
Cookie(c) ==
    /\ pc[c] = "settle"
    /\ TaskFree(c)
    /\ \E ok \in Outcomes(TabOpen(tab[c])) :
        /\ faults' = Charge(TabOpen(tab[c]), ok)
        /\ failed' = Fail(c, "cookie", ok)
        /\ \E has_cookie \in ProbeValues(ok) :
            /\ pc' = [pc EXCEPT ![c] = IF has_cookie THEN "content" ELSE "extra"]
            /\ cur' = Sched(c, IF has_cookie THEN "content" ELSE "extra")
            /\ seen' = [seen EXCEPT ![c] = @ \cup (IF has_cookie THEN {"has_cookie"} ELSE {})]
    /\ did' = [did EXCEPT ![c] = @ \cup {"settle", "cookie"}]
    /\ UNCHANGED <<restVars, readiness, appVars, procs, tabs, browser, guard, url, tab, new_browser, result,
                   opens, launches, closes>>

\* The additional 2 s are over.
ExtraDone(c) ==
    /\ pc[c] = "extra"
    /\ TaskFree(c)
    /\ pc' = [pc EXCEPT ![c] = "content"]
    /\ cur' = Sched(c, "content")
    /\ did' = Step(c, "extra")
    /\ UNCHANGED <<restVars, loadVars, appVars, envVars, browser, guard, url, tab, new_browser, result,
                   opens, launches, closes, failed>>

\* The content of the tab the browser opened last.
ContentTabLatest(c) == Len(tabs)

\* The tab whose content the call reads: its own.
ContentTab(c) == tab[c]

\* self.extract_text(&html): the text of the page the html is of.
extract_text(html) == [kind |-> "Ok", text_of |-> html.html_of]

\* tab.get_content().context("Failed to get page content")?, then extract_text.
Content(c) ==
    /\ pc[c] = "content"
    /\ \E ok \in Outcomes(TabOpen(ContentTab(c))) :
        /\ faults' = Charge(TabOpen(ContentTab(c)), ok)
        /\ failed' = Fail(c, "content", ok)
        /\ result' = [result EXCEPT ![c] =
                        IF ok THEN extract_text([html_of |-> tabs[ContentTab(c)].page])
                        ELSE Err("ContentFailed", url[c])]
        /\ did' = [did EXCEPT ![c] = @ \cup (IF ok THEN {"content", "extract"}
                                                ELSE {"content"})]
    /\ pc' = [pc EXCEPT ![c] = "close"]
    /\ UNCHANGED <<restVars, loadVars, appVars, procs, tabs, browser, guard, cur, url, tab, new_browser,
                   opens, launches, closes>>

\* A close whose failure is returned in place of the result.
ResultAfterCloseChecked(c, ok) == IF ok THEN result[c] ELSE Err("CloseFailed", url[c])

\* What the call returns after close_target gave `ok`: `let _ = ...` drops the
\* outcome, `result` is returned as the async block left it.
ResultAfterClose(c, ok) == result[c]

\* let _ = tab.close_target(); result
Close(c) ==
    /\ pc[c] = "close"
    /\ \E ok \in Outcomes(TabOpen(tab[c])) :
        /\ tabs' = IF ok THEN [tabs EXCEPT ![tab[c]].open = FALSE] ELSE tabs
        /\ faults' = Charge(TabOpen(tab[c]), ok)
        /\ failed' = Fail(c, "close", ok)
        /\ result' = [result EXCEPT ![c] = ResultAfterClose(c, ok)]
    /\ closes' = [closes EXCEPT ![c] = @ + 1]
    /\ pc' = [pc EXCEPT ![c] = "done"]
    /\ cur' = Sched(c, "done")
    /\ did' = Step(c, "close")
    /\ UNCHANGED <<restVars, loadVars, appVars, procs, browser, guard, url, tab, new_browser,
                   opens, launches>>

----------------------------------------------------------------------------

Next ==
    \/ ScraperSingleton_init
    \/ create_app_new
    \/ Crash
    \/ \E c \in Calls : Start(c)
    \/ \E c \in Calls : Acquire(c)
    \/ \E c \in Calls : Block(c)
    \/ \E c \in Calls : Resume(c)
    \/ \E c \in Calls : OpenTab(c)
    \/ \E c \in Calls : Relaunch(c)
    \/ \E c \in Calls : Replace(c)
    \/ \E c \in Calls : RetryTab(c)
    \/ \E c \in Calls : Navigate(c)
    \/ \E c \in Calls : PageLoad(c)
    \/ \E c \in Calls : TimerElapses(c)
    \/ \E c \in Calls : EvaluateAnswers(c)
    \/ \E c \in Calls : Ready(c)
    \/ \E c \in Calls : Cookie(c)
    \/ \E c \in Calls : ExtraDone(c)
    \/ \E c \in Calls : Content(c)
    \/ \E c \in Calls : Close(c)
    \/ \E c \in Calls : Cancel(c)

Spec == Init /\ [][Next]_vars

\* The steps of a call once it was started: polls of its future by the
\* runtime, and the answer of the browser to its evaluate.
CallStep(c) ==
    \/ Acquire(c) \/ Block(c) \/ Resume(c)
    \/ OpenTab(c) \/ Relaunch(c) \/ Replace(c) \/ RetryTab(c)
    \/ Navigate(c) \/ PageLoad(c) \/ EvaluateAnswers(c) \/ Ready(c)
    \/ Cookie(c) \/ ExtraDone(c) \/ Content(c) \/ Close(c)

\* The runtime polls every future that can go on, timers run out, and the
\* browser operations return.
SpecFair == Spec /\ \A c \in Calls : WF_vars(CallStep(c))

----------------------------------------------------------------------------
\* Strings.  A string is the sequence of its characters, so that a suffix, a
\* substring and the case of a letter are what they are in the program.

\* The lower-case form of every upper-case ASCII letter.
LowerOf ==
    [ch \in {"A", "B", "C", "D", "E", "F", "G", "H", "I", "J", "K", "L", "M",
             "N", "O", "P", "Q", "R", "S", "T", "U", "V", "W", "X", "Y", "Z"} |->
        CASE ch = "A" -> "a" [] ch = "B" -> "b" [] ch = "C" -> "c" [] ch = "D" -> "d"
          [] ch = "E" -> "e" [] ch = "F" -> "f" [] ch = "G" -> "g" [] ch = "H" -> "h"
          [] ch = "I" -> "i" [] ch = "J" -> "j" [] ch = "K" -> "k" [] ch = "L" -> "l"
          [] ch = "M" -> "m" [] ch = "N" -> "n" [] ch = "O" -> "o" [] ch = "P" -> "p"
          [] ch = "Q" -> "q" [] ch = "R" -> "r" [] ch = "S" -> "s" [] ch = "T" -> "t"
          [] ch = "U" -> "u" [] ch = "V" -> "v" [] ch = "W" -> "w" [] ch = "X" -> "x"
          [] ch = "Y" -> "y" [] ch = "Z" -> "z"]

\* A to_lowercase that leaves the string as it is.
to_lowercase_asis(s) == s

\* str::to_lowercase.
to_lowercase(s) == [i \in DOMAIN s |-> IF s[i] \in DOMAIN LowerOf THEN LowerOf[s[i]] ELSE s[i]]

\* str::to_uppercase, on the letters of LowerOf.
to_uppercase(s) ==
    [i \in DOMAIN s |->
        IF \E ch \in DOMAIN LowerOf : LowerOf[ch] = s[i]
        THEN CHOOSE ch \in DOMAIN LowerOf : LowerOf[ch] = s[i]
        ELSE s[i]]

\* str::ends_with.
ends_with(s, e) == Len(e) <= Len(s) /\ SubSeq(s, Len(s) - Len(e) + 1, Len(s)) = e

\* str::contains.
contains(s, e) == \E i \in 1..(Len(s) - Len(e) + 1) : SubSeq(s, i, i + Len(e) - 1) = e

----------------------------------------------------------------------------
\* is_scrapeable_url (data_retriever.rs).

non_scrapeable_extensions ==
    <<
      <<".", "p", "d", "f">>, <<".", "d", "o", "c">>, <<".", "d", "o", "c", "x">>,
      <<".", "x", "l", "s">>, <<".", "x", "l", "s", "x">>, <<".", "p", "p", "t">>,
      <<".", "p", "p", "t", "x">>, <<".", "z", "i", "p">>, <<".", "r", "a", "r">>,
      <<".", "t", "a", "r">>, <<".", "g", "z">>, <<".", "7", "z">>,
      <<".", "m", "p", "3">>, <<".", "m", "p", "4">>, <<".", "a", "v", "i">>,
      <<".", "m", "o", "v">>, <<".", "w", "a", "v">>, <<".", "j", "p", "g">>,
      <<".", "j", "p", "e", "g">>, <<".", "p", "n", "g">>, <<".", "g", "i", "f">>,
      <<".", "b", "m", "p">>, <<".", "s", "v", "g">>, <<".", "e", "x", "e">>,
      <<".", "d", "m", "g">>, <<".", "a", "p", "p">>, <<".", "d", "e", "b">>,
      <<".", "r", "p", "m">> >>

download_dir == <<"/", "d", "o", "w", "n", "l", "o", "a", "d", "/">>
\* The document markers of the download rule.
download_markers ==
    {<<".", "d", "o", "c">>, <<".", "p", "d", "f">>,
     <<".", "x", "l", "s">>, <<".", "p", "p", "t">>}

\* A download rule that looks for the marker at the end of the URL only.
download_rule_at_end(url_lower) ==
    /\ contains(url_lower, download_dir)
    /\ \E m \in download_markers : ends_with(url_lower, m)

\* The second rule: a document under a /download/ path.
download_rule(url_lower) ==
    /\ contains(url_lower, download_dir)
    /\ \E m \in download_markers : contains(url_lower, m)

\* A classification that tests the extension of the path, the query string
\* left aside.
is_scrapeable_path(u) ==
    LET url_lower == to_lowercase(u)
        marks == {i \in DOMAIN url_lower : url_lower[i] = "?"}
        path == IF marks = {} THEN url_lower
                ELSE SubSeq(url_lower, 1, (CHOOSE i \in marks : \A j \in marks : i <= j) - 1)
    IN  /\ ~\E i \in DOMAIN non_scrapeable_extensions :
                ends_with(path, non_scrapeable_extensions[i])
        /\ ~download_rule(url_lower)

is_scrapeable_url(u) ==
    LET url_lower == to_lowercase(u)
    IN  IF \E i \in DOMAIN non_scrapeable_extensions :
               ends_with(url_lower, non_scrapeable_extensions[i])
        THEN FALSE
        ELSE IF download_rule(url_lower) THEN FALSE ELSE TRUE

----------------------------------------------------------------------------
\* DataRetrieverTask::run and GenerateAnswerTask::run (agent_workflow).
\* The search request and the scrapes are the environment: a request fails or
\* returns a list of links, a scrape fails or returns a text.

\* Search results in one response.
MaxResults == 3

\* The links a search returns: two pages, a document and a download link.
page_a == <<"h", "/", "a">>
page_b == <<"h", "/", "b">>
file_pdf == <<"h", "/", "a", ".", "P", "D", "F">>
download_doc ==
    <<"h", "/", "d", "o", "w", "n", "l", "o", "a", "d", "/", "a", ".", "d", "o", "c", "?", "v">>
Links == {page_a, page_b, file_pdf, download_doc}

\* The length run asks of a scraped text, in bytes after trim().
min_text_len == 100

\* A scraped text: where it came from, its length in bytes, and how many of
\* them are leading or trailing white space.
Texts(link) ==
    {[src |-> link, len |-> n + p, pad |-> p] :
        n \in {0, min_text_len, min_text_len + 1}, p \in {0, 2}}

\* str::trim, then str::len.
trim_len(text) == text.len - text.pad

ENHANCED_QUERY == "enhanced_query"
SEARCH_RESULTS == "search_results"
QUERY == "query"
ANSWER == "answer"

\* Context values carry their type: get::<T> yields a value only of type T.
Typed(type, v) == [type |-> type, val |-> v]

\* Context::set.
ContextSet(ctx, key, v) ==
    [k \in DOMAIN ctx \cup {key} |-> IF k = key THEN v ELSE ctx[k]]

\* The value deserialises as type T: it is of that type, or it is an empty
\* list and T is a list type.
Deserialises(v, type) ==
    \/ v.type = type
    \/ /\ v.type \in {"Vec<String>", "Vec<OrganicResult>"}
       /\ type \in {"Vec<String>", "Vec<OrganicResult>"}
       /\ v.val = <<>>

\* Context::get::<T>: None (<<>>) when the key is absent or does not hold a T.
ContextGet(ctx, key, type) ==
    IF key \in DOMAIN ctx /\ Deserialises(ctx[key], type) THEN <<ctx[key].val>> ELSE <<>>

TaskExecutionFailed(msg) == [kind |-> "TaskExecutionFailed", msg |-> msg]
RunOk == [kind |-> "Ok"]

\* A filter that lets every result through.
scrapeable_results_all(organic) == organic

\* search_response.organic.iter().filter(|r| is_scrapeable_url(&r.link)).
scrapeable_results(organic) == SelectSeq(organic, is_scrapeable_url)

\* A text filter that keeps a text of exactly the asked length too.
valid_text_from_threshold(text) == trim_len(text) >= min_text_len

\* filter(|text| text.trim().len() > 100).
valid_text(text) == trim_len(text) > min_text_len

valid_scraped_txts(texts) == SelectSeq(texts, valid_text)

frameRun == <<scraperVars, fnVars>>

\* The contexts run is called with: the empty one of the tests, or the one
\* QueryEnhanceTask has filled.
InitRun ==
    /\ ScraperInit
    /\ FnIdle
    /\ RunIdle

\* create_app initialised the singleton (the tests do not).
AppStarted ==
    /\ run_pc = "idle"
    /\ context = <<>>
    /\ ~SCRAPER_INSTANCE
    /\ SCRAPER_INSTANCE' = TRUE
    /\ UNCHANGED <<app, browser, extension, guard, procs, tabs, faults, task, cur, pc, url,
                   tab, new_browser, result, opens, launches, closes, did, failed, seen,
                   readiness>>
    /\ UNCHANGED <<runVars, fnVars>>

\* QueryEnhanceTask ran before: the query and the enhanced query are in the context.
Enhanced ==
    /\ run_pc = "idle"
    /\ context = <<>>
    /\ context' = ContextSet(ContextSet(context, QUERY, Typed("String", "q")),
                             ENHANCED_QUERY, Typed("String", "q+"))
    /\ UNCHANGED <<run_pc, search_response, scraped, run_result, generate_result,
                   test_result, searched, got_scraper, invoked>>
    /\ UNCHANGED frameRun

\* A lookup that falls back to the empty query.
enhanced_query_or_default(ctx) ==
    IF ContextGet(ctx, ENHANCED_QUERY, "String") = <<>>
    THEN <<"">>
    ELSE ContextGet(ctx, ENHANCED_QUERY, "String")

\* context.get(ENHANCED_QUERY).
enhanced_query(ctx) == ContextGet(ctx, ENHANCED_QUERY, "String")

\* run, lines 46-51: the enhanced query, or the error.
RunStart ==
    /\ run_pc = "idle"
    /\ IF enhanced_query(context) = <<>>
       THEN /\ run_result' = TaskExecutionFailed("Missing enhanced query")
            /\ run_pc' = "done"
       ELSE /\ run_pc' = "search"
            /\ UNCHANGED run_result
    /\ UNCHANGED <<context, search_response, scraped, generate_result, test_result, searched,
                   got_scraper, invoked>>
    /\ UNCHANGED frameRun

\* run, lines 53-57: retrieve_data(query).await.
RetrieveData ==
    /\ run_pc = "search"
    /\ searched' = TRUE
    /\ \/ /\ run_result' = TaskExecutionFailed("Failed to retrieve data")
          /\ run_pc' = "done"
          /\ UNCHANGED search_response
       \/ /\ \E n \in 0..MaxResults : search_response' \in [1..n -> Links]
          /\ run_pc' = "classify"
          /\ UNCHANGED run_result
    /\ UNCHANGED <<context, scraped, generate_result, test_result, got_scraper, invoked>>
    /\ UNCHANGED frameRun

\* run, lines 61-94: the filter, the early return, the scraper lookup, and the
\* scrape futures join_all polls.
Classify ==
    /\ run_pc = "classify"
    /\ LET accepted == scrapeable_results(search_response)
       IN  IF accepted = <<>>
           THEN /\ context' = ContextSet(context, SEARCH_RESULTS, Typed("Vec<String>", <<>>))
                /\ run_result' = RunOk
                /\ run_pc' = "done"
                /\ UNCHANGED <<got_scraper, invoked, scraped>>
           ELSE /\ got_scraper' = TRUE
                /\ IF ~SCRAPER_INSTANCE
                   THEN /\ run_result' = TaskExecutionFailed("Failed to get scraper")
                        /\ run_pc' = "done"
                        /\ UNCHANGED <<invoked, scraped>>
                   ELSE /\ invoked' = accepted
                        /\ scraped' = [i \in DOMAIN accepted |-> NoResult]
                        /\ run_pc' = "join"
                        /\ UNCHANGED run_result
                /\ UNCHANGED context
    /\ UNCHANGED <<search_response, generate_result, test_result, searched>>
    /\ UNCHANGED frameRun

\* One scrape_text future of the join_all completes, with a text or an error.
ScrapeReturns(i) ==
    /\ run_pc = "join"
    /\ i \in DOMAIN scraped
    /\ scraped[i] = NoResult
    /\ \E r \in {[kind |-> "Err"]} \cup {[kind |-> "Ok", text |-> x] : x \in Texts(invoked[i])} :
          scraped' = [scraped EXCEPT ![i] = r]
    /\ UNCHANGED <<context, run_pc, search_response, run_result, generate_result,
                   test_result, searched,
                   got_scraper, invoked>>
    /\ UNCHANGED frameRun

\* A collect that drops the failed scrapes and keeps the rest.
collect_lenient(results) ==
    [kind |-> "Ok",
     texts |-> LET oks == SelectSeq(results, LAMBDA r : r.kind = "Ok")
               IN  [i \in DOMAIN oks |-> oks[i].text]]

\* collect::<Result<Vec<_>, _>>(): the texts, or an error if any scrape failed.
collect(results) ==
    IF \E i \in DOMAIN results : results[i].kind = "Err"
    THEN [kind |-> "Err"]
    ELSE [kind |-> "Ok", texts |-> [i \in DOMAIN results |-> results[i].text]]

\* A join that is ready as soon as one future has failed.
try_join_all_ready(results) ==
    \/ \A i \in DOMAIN results : results[i] # NoResult
    \/ \E i \in DOMAIN results : results[i].kind = "Err"

\* futures::future::join_all is ready when every future has completed.
join_all_ready(results) == \A i \in DOMAIN results : results[i] # NoResult

\* run, lines 96-117: join_all is ready; collect, filter, store.
Collect ==
    /\ run_pc = "join"
    /\ join_all_ready(scraped)
    /\ LET scraped_results == collect(scraped)
       IN  IF scraped_results.kind = "Err"
           THEN /\ run_result' = TaskExecutionFailed("Failed to scrape")
                /\ UNCHANGED context
           ELSE /\ context' = ContextSet(context, SEARCH_RESULTS,
                                 Typed("Vec<String>", valid_scraped_txts(scraped_results.texts)))
                /\ run_result' = RunOk
    /\ run_pc' = "done"
    /\ UNCHANGED <<search_response, scraped, generate_result, test_result, searched,
                   got_scraper, invoked>>
    /\ UNCHANGED frameRun

\* GenerateAnswerTask::run, after the retriever returned.
GenerateAnswerTask_run ==
    /\ run_pc = "done"
    /\ generate_result = NoResult
    /\ IF ContextGet(context, SEARCH_RESULTS, "Vec<String>") = <<>>
       THEN /\ generate_result' = TaskExecutionFailed("Missing search results")
            /\ UNCHANGED context
       ELSE IF ContextGet(context, QUERY, "String") = <<>>
       THEN /\ generate_result' = TaskExecutionFailed("Missing question")
            /\ UNCHANGED context
       ELSE \/ /\ generate_result' = TaskExecutionFailed("Failed to generate answer")
               /\ UNCHANGED context
            \/ /\ generate_result' = RunOk
               /\ context' = ContextSet(context, ANSWER, Typed("String", "a"))
    /\ UNCHANGED <<run_pc, search_response, scraped, run_result, test_result, searched,
                   got_scraper, invoked>>
    /\ UNCHANGED frameRun

\* tests::test_data_retriever_task, after run: what it reads and asserts.
test_data_retriever_task ==
    /\ run_pc = "done"
    /\ test_result = NoResult
    /\ LET search_results == ContextGet(context, SEARCH_RESULTS, "Vec<OrganicResult>")
       IN  test_result' =
              IF run_result # RunOk THEN [kind |-> "failed", assert |-> "result.is_ok()"]
              ELSE IF search_results = <<>>
              THEN [kind |-> "failed", assert |-> "search_results.is_some()"]
              ELSE IF search_results[1] = <<>>
              THEN [kind |-> "failed", assert |-> "!search_results.is_empty()"]
              ELSE [kind |-> "passed"]
    /\ UNCHANGED <<context, run_pc, search_response, scraped, run_result, generate_result,
                   searched, got_scraper, invoked>>
    /\ UNCHANGED frameRun

NextRun ==
    \/ AppStarted
    \/ Enhanced
    \/ RunStart
    \/ RetrieveData
    \/ Classify
    \/ \E i \in 1..MaxResults : ScrapeReturns(i)
    \/ Collect
    \/ GenerateAnswerTask_run
    \/ test_data_retriever_task

SpecRun == InitRun /\ [][NextRun]_vars

----------------------------------------------------------------------------
\* is_scrapeable_url applied to URLs (specification SpecUrl).

\* What comes before the extension: a page, a page under /download/ in either
\* case, an archive name, and a page below a downloaded document.
Stems ==
    {<<"h", "/", "a">>,
     <<"h", "/", "d", "o", "w", "n", "l", "o", "a", "d", "/", "a">>,
     <<"h", "/", "D", "O", "W", "N", "L", "O", "A", "D", "/", "a">>,
     <<"h", "/", "a", ".", "t", "a", "r">>,
     <<"h", "/", "d", "o", "w", "n", "l", "o", "a", "d", "/", "r", ".", "d", "o", "c", "/", "a">>}

\* An extension as written, in upper case, and with its first letter in upper case.
Spellings(e) ==
    {e, to_uppercase(e), [i \in DOMAIN e |-> IF i = 2 THEN to_uppercase(e)[i] ELSE e[i]]}

\* Extensions that are not on the list.
other_extensions == {<<".", "h", "t", "m", "l">>, <<".", "t", "x", "t">>}

\* How a URL goes on after its stem: nothing, or an extension in some spelling.
Endings ==
    {<<>>} \cup UNION {Spellings(non_scrapeable_extensions[i]) : i \in DOMAIN non_scrapeable_extensions}
           \cup UNION {Spellings(e) : e \in other_extensions}

\* A query string, or none.
Queries == {<<>>, <<"?", "v">>}

Urls == {s \o e \o q : s \in Stems, e \in Endings, q \in Queries}

frameUrl == <<scraperVars, runVars>>

InitUrl ==
    /\ ScraperInit
    /\ RunIdle
    /\ arg \in Urls
    /\ ret = <<>>
    /\ removed = <<>>

\* The call is_scrapeable_url(arg).
Classify_url ==
    /\ ret = <<>>
    /\ ret' = <<is_scrapeable_url(arg)>>
    /\ UNCHANGED <<arg, removed>>
    /\ UNCHANGED frameUrl

\* The listed extensions arg ends with, ignoring letter case.
ListedEndings(u) ==
    {non_scrapeable_extensions[i] : i \in
        {j \in DOMAIN non_scrapeable_extensions :
            ends_with(to_lowercase(u), non_scrapeable_extensions[j])}}

\* The same URL with its listed extension removed, to be classified in turn.
StripExtension ==
    /\ ret # <<>>
    /\ removed = <<>>
    /\ \E e \in ListedEndings(arg) :
          /\ arg' = SubSeq(arg, 1, Len(arg) - Len(e))
          /\ removed' = e
    /\ ret' = <<>>
    /\ UNCHANGED frameUrl

NextUrl ==
    \/ Classify_url
    \/ StripExtension

SpecUrl == InitUrl /\ [][NextUrl]_vars

----------------------------------------------------------------------------
\* WebScraper::extract_text on markup (specification SpecExtract).
\*
\* An HTML source is the sequence of its items inside <main> (none: no main
\* element) and the sequence of its items elsewhere in <body>.  An item is a
\* text, or a script or style element as it is written in the source:
\* "canonical" is the markup the serialiser would write, "single_quoted" is
\* the same element with an attribute in single quotes.  A text, and the
\* content of a script or style element, is one line: s names it, len is its
\* length in bytes and pad how many of them are leading blanks.

\* Items in each of the two places.
MaxItems == 2

Line(s, len, pad) == [s |-> s, len |-> len, pad |-> pad]

TextItems ==
    {[node |-> "text", line |-> l] :
        l \in {Line("paragraph", 120, 0), Line("title", 12, 2), Line("dash", 4, 2),
                Line("kanji", 6, 0)}}

\* The lines written in characters of three bytes each; the others, and all
\* blanks, are ASCII.
wide_lines == {"kanji"}

\* str::chars().count() of a line, where str::len() is line.len.
chars_count(line) ==
    IF line.s \in wide_lines THEN line.pad + (line.len - line.pad) \div 3 ELSE line.len

Writings == {"canonical", "single_quoted"}

ScriptItems ==
    {[node |-> "script", written |-> w, line |-> Line("js", 24, 0)] : w \in Writings}

StyleItems ==
    {[node |-> "style", written |-> w, line |-> Line("css", 18, 0)] : w \in Writings}

Items == TextItems \cup ScriptItems \cup StyleItems

ItemSeqs == UNION {[1..n -> Items] : n \in 0..MaxItems}

HtmlSources == {[main |-> m, body |-> b] : m \in ItemSeqs, b \in ItemSeqs}

\* Html::parse_document on one item: the node of the tree.  How an element
\* was written is not part of the tree.
parse_item(item) ==
    IF item.node = "text" THEN item ELSE [node |-> item.node, line |-> item.line]

\* Html::parse_document.
parse_document(html) ==
    [main |-> [i \in DOMAIN html.main |-> parse_item(html.main[i])],
     body |-> [i \in DOMAIN html.body |-> parse_item(html.body[i])]]

\* ElementRef::html: the markup of an element of the tree, as the serialiser
\* writes it, however the source wrote the element.
element_html(element) ==
    [node |-> element.node, written |-> "canonical", line |-> element.line]

\* document.select("script, style"), each as its serialised markup.
script_style_markup(html) ==
    LET document == parse_document(html)
        of(nodes) == {element_html(nodes[i]) :
                         i \in {j \in DOMAIN nodes : nodes[j].node \in {"script", "style"}}}
    IN  of(document.main) \cup of(document.body)

\* The loop of lines 175-177, cleaned_html.replace(&element.html(), ""): the
\* source without the items written exactly as one of the serialised markups.
cleaned_html(html) ==
    [main |-> SelectSeq(html.main, LAMBDA item : item \notin script_style_markup(html)),
     body |-> SelectSeq(html.body, LAMBDA item : item \notin script_style_markup(html))]

\* ElementRef::text: the text nodes below, in document order; the content of
\* a script or style element is a text node like any other.
text_nodes(nodes) == [i \in DOMAIN nodes |-> nodes[i].line]

RECURSIVE joined_len(_)
\* The length of text.collect::<Vec<_>>().join(" ").
joined_len(lines) ==
    IF lines = <<>> THEN 0
    ELSE Head(lines).len + (IF Len(lines) > 1 THEN 1 ELSE 0) + joined_len(Tail(lines))

\* The length of text.trim(): the joined text without its leading blanks.
joined_trim_len(lines) ==
    IF lines = <<>> THEN 0 ELSE joined_len(lines) - Head(lines).pad

\* The length a container's text must exceed, in bytes after trim().
min_content_len == 100

\* str::trim on one line.
trim(line) == Line(line.s, line.len - line.pad, 0)

\* The shortest line clean_text keeps has more than this many bytes.
min_line_len == 2

\* WebScraper::clean_text: trim every line, drop the empty and the short ones.
clean_text(lines) ==
    SelectSeq([i \in DOMAIN lines |-> trim(lines[i])],
              LAMBDA line : line.len # 0 /\ line.len > min_line_len)

\* WebScraper::extract_text.
extract_text_html(html) ==
    LET clean_doc == parse_document(cleaned_html(html))
        main_text == text_nodes(clean_doc.main)
        all_text == text_nodes(clean_doc.main \o clean_doc.body)
    IN  IF joined_trim_len(main_text) > min_content_len
        THEN clean_text(main_text)
        ELSE clean_text(all_text)

frameExtract == <<scraperVars, runVars>>

InitExtract ==
    /\ ScraperInit
    /\ RunIdle
    /\ arg \in HtmlSources
    /\ ret = <<>>
    /\ removed = <<>>

\* The call extract_text(arg).
ExtractText ==
    /\ ret = <<>>
    /\ ret' = <<extract_text_html(arg)>>
    /\ UNCHANGED <<arg, removed>>
    /\ UNCHANGED frameExtract

NextExtract == ExtractText

SpecExtract == InitExtract /\ [][NextExtract]_vars

----------------------------------------------------------------------------
\* Phases of a scrape_text call.

\* Inside the block that yields `tab` (lines 45-87).
CritPcs == {"new_tab", "recreate", "replace", "retry"}

\* With a tab, before close_target has run (lines 89-107).
NavPcs == {"navigate", "page_load", "ready", "settle", "extra", "content", "close"}

Ok(u) == [kind |-> "Ok", text_of |-> u]

PageLoadSteps == {"wait_body", "probe", "settle", "cookie", "extra", "ready"}

----------------------------------------------------------------------------
\* C1 (as stated): a scrape_text call that obtained a tab has closed it exactly
\* once when it returns, whatever the exit path: no call has returned while its
\* tab is still open.
C1_TabClosedOnReturn ==
    \A c \in Calls :
        /\ closes[c] <= 1
        /\ (tab[c] = 0 => closes[c] = 0)
        /\ (pc[c] = "done" /\ tab[c] # 0 => closes[c] = 1 /\ ~TabOpen(tab[c]))

\* C1 (amended): a scrape_text call that obtained a tab has invoked close_target
\* on it exactly once when it returns, whatever the exit path, and never invokes
\* it twice nor without a tab; a call has returned with its tab still open only
\* if that close_target itself failed (the failure is dropped).
C1_CloseInvokedOnReturn ==
    \A c \in Calls :
        /\ closes[c] <= 1
        /\ (tab[c] = 0 => closes[c] = 0)
        /\ (pc[c] = "done" /\ tab[c] # 0 =>
                /\ closes[c] = 1
                /\ (TabOpen(tab[c]) => "close" \in failed[c]))

\* Two calls have returned, one after a navigation failure and one after a
\* content-fetch failure, each with a tab of its own.
C1_Witness ==
    \E c, d \in Calls :
        /\ pc[c] = "done" /\ tab[c] # 0 /\ result[c].kind = "NavigationFailed"
        /\ pc[d] = "done" /\ tab[d] # 0 /\ result[d].kind = "ContentFailed"

\* C2: a call holds the browser guard only inside the block that opens a tab or
\* recreates the browser: not in its politeness delay, navigation, page-load
\* wait, content fetch, extraction or tab close (nor before or after them).
C2_GuardOnlyInCriticalSection ==
    \A c \in Calls : guard = c => pc[c] \in CritPcs

\* A call sleeps in its page-load wait while another call, holding the guard,
\* recreates the browser.
C2_Witness ==
    \E c, d \in Calls :
        /\ pc[c] = "settle" /\ TabOpen(tab[c])
        /\ pc[d] = "recreate" /\ guard = d

\* C3: at most one call at a time is inside the obtain-a-tab critical section,
\* and a call that is about to open a tab on the stored handle, to launch a
\* browser or to replace the stored handle holds the guard.
C3_CriticalSectionExclusive ==
    \A c \in Calls :
        pc[c] \in CritPcs =>
            /\ guard = c
            /\ \A d \in Calls : pc[d] \in CritPcs => d = c

\* A call is about to replace the stored handle while another call waits for
\* the guard.
C3_Witness ==
    \E c, d \in Calls : pc[c] = "replace" /\ pc[d] = "lockwait"

\* C4: a call makes at most two new_tab attempts and at most one Browser::new
\* attempt; it recreates exactly when its first new_tab failed, makes its second
\* new_tab attempt only after the recreation, and having recreated it either
\* holds a tab and goes through the scrape, or has returned BrowserUnavailable.
C4_OneRecreation ==
    \A c \in Calls :
        /\ opens[c] <= 2
        /\ launches[c] <= 1
        /\ (launches[c] = 1 <=>
                \/ opens[c] = 2
                \/ opens[c] = 1 /\ tab[c] = 0 /\ pc[c] # "recreate")
        /\ (opens[c] >= 1 /\ tab[c] = 0 =>
                \/ pc[c] \in CritPcs \ {"new_tab"}
                \/ pc[c] = "done" /\ result[c].kind = "BrowserUnavailable")
        /\ (tab[c] # 0 => pc[c] \in NavPcs \cup {"done", "cancelled"})

\* A call has returned BrowserUnavailable after one recreation and two new_tab
\* attempts.
C4_Witness ==
    \E c \in Calls :
        /\ pc[c] = "done" /\ result[c].kind = "BrowserUnavailable"
        /\ opens[c] = 2 /\ launches[c] = 1

\* C5: while the environment gives no fault, every call to a reachable URL that
\* has returned succeeded with the text of the page of its own URL and closed
\* its tab exactly once; no two calls ever hold the same tab.
C5_ConcurrentNoCrossTalk ==
    /\ \A c, d \in Calls : c # d /\ tab[c] # 0 => tab[c] # tab[d]
    /\ faults = 0 =>
        \A c \in Calls :
            pc[c] = "done" /\ Reachable(url[c]) =>
                /\ result[c] = Ok(url[c])
                /\ closes[c] = 1
                /\ ~TabOpen(tab[c])

\* Two calls overlapped: d opened its tab after c and has returned the text of
\* its page, while c holds the text of its own page and has yet to close its tab.
C5_Witness ==
    \E c, d \in Calls :
        /\ faults = 0
        /\ tab[c] # 0 /\ tab[c] < tab[d]
        /\ pc[d] = "done" /\ result[d] = Ok(d)
        /\ pc[c] = "close" /\ result[c] = Ok(c)

C7_NavigationFailure ==
    \A c \in Calls :
        "navigate" \in failed[c] =>
            /\ result[c] = Err("NavigationFailed", url[c])
            /\ did[c] \cap (PageLoadSteps \cup {"content", "extract"}) = {}
            /\ pc[c] \in {"close", "done"}
            /\ (pc[c] = "done" =>
                    /\ closes[c] = 1
                    /\ (TabOpen(tab[c]) => "close" \in failed[c]))

\* A call to a reachable URL has returned after its navigation failed, with its
\* tab closed by its own close_target.
C7_Witness ==
    \E c \in Calls :
        /\ pc[c] = "done" /\ "navigate" \in failed[c] /\ Reachable(url[c])
        /\ closes[c] = 1 /\ tabs[tab[c]].open = FALSE

\* C8: the page-load wait never fails the scrape: no call ever holds a
\* page-load error, and a call that navigated and is at close_target or has
\* returned has fetched the page content, and extracted text if the fetch
\* succeeded, whichever of the page-load steps failed.
C8_PageLoadNeverFails ==
    \A c \in Calls :
        /\ result[c].kind # "PageLoadFailed"
        /\ (pc[c] \in {"close", "done"} /\ "navigate" \in did[c] \ failed[c] =>
                "content" \in did[c])
        /\ ("content" \in did[c] \ failed[c] =>
                "extract" \in did[c] /\ result[c].kind = "Ok")

\* A call has returned text although its body wait and its challenge probe
\* failed.
C8_Witness ==
    \E c \in Calls :
        /\ pc[c] = "done" /\ result[c].kind = "Ok"
        /\ {"wait_body", "probe"} \subseteq failed[c]

\* Another one: a call has fetched content after its body wait, its challenge
\* probe and its readiness wait all failed.
C8_WitnessAllFailed ==
    \E c \in Calls :
        /\ "content" \in did[c]
        /\ {"wait_body", "probe", "ready"} \subseteq failed[c]

\* C9 (as stated): at most one browser process is live at any time, at startup
\* and during recovery included.
C9_OneLiveBrowser == Cardinality(LiveProcs) <= 1

\* C10 (as stated): a call cancelled after it obtained its tab leaves no tab
\* open.
C10_CancelClosesTab ==
    \A c \in Calls : pc[c] = "cancelled" /\ tab[c] # 0 => ~TabOpen(tab[c])

----------------------------------------------------------------------------
\* Claims about DataRetrieverTask::run (specification SpecRun).

\* The search succeeded and the classifier rejected every result (or there was none).
AllRejected ==
    /\ searched
    /\ run_result # TaskExecutionFailed("Failed to retrieve data")
    /\ \A i \in DOMAIN search_response : ~is_scrapeable_url(search_response[i])

\* C11: when every search result is classified non-scrapeable, or there are no
\* results, run never looks up the scraper and never invokes it, and once it
\* has returned it has returned success with the empty list stored under
\* SEARCH_RESULTS.
C11_AllRejectedIsEmptySuccess ==
    AllRejected =>
        /\ ~got_scraper
        /\ invoked = <<>>
        /\ run_pc = "done" =>
              /\ run_result = RunOk
              /\ SEARCH_RESULTS \in DOMAIN context
              /\ context[SEARCH_RESULTS] = Typed("Vec<String>", <<>>)

\* run returned on a response whose results, a document and a download link, were all rejected.
C11_Witness ==
    /\ AllRejected
    /\ run_pc = "done"
    /\ search_response = <<file_pdf, download_doc>>
    /\ run_result = RunOk

\* Some scrape of the batch failed.
SomeScrapeFailed == \E i \in DOMAIN scraped : scraped[i].kind = "Err"

\* C12: if the scrape of at least one accepted URL fails, nothing is ever
\* written under SEARCH_RESULTS, and run returns TaskExecutionFailed for the
\* whole batch, also when other URLs of the batch were scraped successfully.
C12_OneFailureFailsBatch ==
    SomeScrapeFailed =>
        /\ SEARCH_RESULTS \notin DOMAIN context
        /\ run_pc = "done" => run_result.kind = "TaskExecutionFailed"

\* run returned on a batch of two scrapes, the first successful with a long
\* text, the second failed.
C12_Witness ==
    /\ run_pc = "done"
    /\ Len(scraped) = 2
    /\ scraped[1].kind = "Ok" /\ trim_len(scraped[1].text) > min_text_len
    /\ scraped[2].kind = "Err"
    /\ run_result = TaskExecutionFailed("Failed to scrape")

\* run returned success on a batch that reached the scraper.
BatchSucceeded == run_pc = "done" /\ run_result = RunOk /\ got_scraper

\* The positions of the search results the classifier accepted.
AcceptedAt == {i \in DOMAIN search_response : is_scrapeable_url(search_response[i])}

C17_MissingQueryFailsFirst ==
    (run_pc # "idle" /\ ENHANCED_QUERY \notin DOMAIN context) =>
        /\ run_pc = "done"
        /\ run_result = TaskExecutionFailed("Missing enhanced query")
        /\ ~searched
        /\ search_response = <<>>
        /\ ~got_scraper
        /\ invoked = <<>>
        /\ SEARCH_RESULTS \notin DOMAIN context

\* run was called on the empty context, with the singleton scraper
\* initialised, and has returned.
C17_Witness ==
    /\ context = <<>>
    /\ SCRAPER_INSTANCE
    /\ run_pc = "done"
    /\ run_result.kind = "TaskExecutionFailed"

\* C18 (as stated): whenever run has returned success a value is stored
\* under SEARCH_RESULTS and the consumers reading that key obtain it:
\* GenerateAnswerTask does not fail with "Missing search results", and the
\* read of tests::test_data_retriever_task yields the stored value.
C18_SuccessIsReadable ==
    (run_pc = "done" /\ run_result = RunOk) =>
        /\ SEARCH_RESULTS \in DOMAIN context
        /\ generate_result # TaskExecutionFailed("Missing search results")
        /\ test_result # [kind |-> "failed", assert |-> "search_results.is_some()"]

\* The part of C18 about GenerateAnswerTask: after a successful retrieval the
\* value is there as a Vec<String>, and GenerateAnswerTask does not fail with
\* "Missing search results".
C18_GenerateFindsResults ==
    (run_pc = "done" /\ run_result = RunOk) =>
        /\ ContextGet(context, SEARCH_RESULTS, "Vec<String>") # <<>>
        /\ generate_result # TaskExecutionFailed("Missing search results")

\* GenerateAnswerTask ran after a successful retrieval that stored a text.
C18_Witness ==
    /\ run_pc = "done" /\ run_result = RunOk
    /\ context[SEARCH_RESULTS].val # <<>>
    /\ generate_result = RunOk

----------------------------------------------------------------------------
\* Claims about is_scrapeable_url (specification SpecUrl).

\* The URL ends with a listed extension in one of its spellings.
EndsWithListed(u) ==
    \E i \in DOMAIN non_scrapeable_extensions :
        \E e \in Spellings(non_scrapeable_extensions[i]) : ends_with(u, e)

\* The verdict on a URL that ends, in any letter case, with a listed extension is false.
ListedExtensionRejected ==
    (ret # <<>> /\ EndsWithListed(arg)) => ret = <<FALSE>>

\* C14 (as stated): a URL that ends, ignoring letter case, with a listed
\* extension is rejected, and the same URL with that extension removed is
\* accepted.
C14_ExtensionDecides ==
    /\ ListedExtensionRejected
    /\ (ret # <<>> /\ removed # <<>>) => ret = <<TRUE>>

\* The URL is under a /download/ path, in either case, and contains a document marker.
DownloadDocument(u) ==
    /\ contains(u, download_dir) \/ contains(u, to_uppercase(download_dir))
    /\ \E m \in download_markers : \E e \in Spellings(m) : contains(u, e)

\* C14 (amended): a URL that ends, ignoring letter case, with a listed
\* extension is rejected; the same URL with that extension removed is
\* accepted provided that what remains does not end with a listed extension
\* either and is not a /download/ URL that contains .doc, .pdf, .xls or .ppt.
C14_ExtensionDecidesUnlessStacked ==
    /\ ListedExtensionRejected
    /\ (ret # <<>> /\ removed # <<>> /\ ~EndsWithListed(arg) /\ ~DownloadDocument(arg))
          => ret = <<TRUE>>

\* A URL that ended in .PDF was rejected, and is accepted once .pdf is removed.
C14_Witness ==
    /\ removed = <<".", "p", "d", "f">>
    /\ arg = <<"h", "/", "a">>
    /\ ret = <<TRUE>>

\* An archive name: with .gz removed it still ends in .tar and is rejected.
C14_WitnessStacked ==
    /\ removed = <<".", "g", "z">>
    /\ arg = <<"h", "/", "a", ".", "t", "a", "r">>
    /\ ret = <<FALSE>>

\* C15: a URL that contains /download/ and one of .doc, .pdf, .xls, .ppt
\* anywhere is rejected, also when it does not end with that extension.
C15_DownloadDocumentRejected ==
    (ret # <<>> /\ contains(arg, download_dir)
                /\ \E m \in download_markers : contains(arg, m))
        => ret = <<FALSE>>

\* A /download/ URL whose .pdf is followed by a query string was rejected.
C15_Witness ==
    /\ arg = <<"h", "/", "d", "o", "w", "n", "l", "o", "a", "d", "/", "a", ".", "p", "d", "f", "?", "v">>
    /\ ~EndsWithListed(arg)
    /\ ret = <<FALSE>>

\* A listed extension, in some spelling, followed by a query string.
ExtensionBeforeQuery(u) ==
    \E i \in DOMAIN non_scrapeable_extensions :
        \E e \in Spellings(non_scrapeable_extensions[i]) :
            \E q \in Queries \ {<<>>} : ends_with(u, e \o q)

\* C25: a URL that neither ends with a listed extension, in any letter case,
\* nor is a /download/ URL that contains .doc, .pdf, .xls or .ppt is accepted;
\* so is a URL whose listed extension is followed by a query string and that
\* is not under /download/.
C25_OthersAccepted ==
    /\ (ret # <<>> /\ ~EndsWithListed(arg) /\ ~DownloadDocument(arg)) => ret = <<TRUE>>
    /\ (ret # <<>> /\ ExtensionBeforeQuery(arg) /\ ~EndsWithListed(arg)
                   /\ ~contains(to_lowercase(arg), download_dir)) => ret = <<TRUE>>

\* A URL whose .pdf is followed by a query string was accepted.
C25_Witness ==
    /\ arg = <<"h", "/", "a", ".", "p", "d", "f", "?", "v">>
    /\ removed = <<>>
    /\ ret = <<TRUE>>

----------------------------------------------------------------------------
\* Claims about extract_text (specification SpecExtract).

\* The lines that are the content of a script or style element of the source.
ScriptStyleLines(html) ==
    {item.line : item \in {html.main[i] : i \in DOMAIN html.main}
                          \cup {html.body[i] : i \in DOMAIN html.body}}
    \cap {item.line : item \in ScriptItems \cup StyleItems}

\* C16: for every HTML input that contains script or style elements, the
\* output of extract_text contains none of the text content of those elements.
C16_NoScriptStyleText ==
    ret # <<>> =>
        \A i \in DOMAIN ret[1] : ret[1][i] \notin {trim(l) : l \in ScriptStyleLines(arg)}

\* The same for sources whose script and style elements are all written as
\* the serialiser writes them: there the textual removal finds them.
C16_CanonicalScriptsRemoved ==
    (ret # <<>> /\ \A item \in ScriptItems \cup StyleItems :
                      (\E i \in DOMAIN arg.main : arg.main[i] = item)
                      \/ (\E i \in DOMAIN arg.body : arg.body[i] = item)
                      => item.written = "canonical") =>
        \A i \in DOMAIN ret[1] : ret[1][i] \notin {trim(l) : l \in ScriptStyleLines(arg)}

\* A source with a canonical script beside a paragraph in main: the output is the paragraph.
C16_WitnessCanonical ==
    /\ arg.main = <<[node |-> "text", line |-> Line("paragraph", 120, 0)],
                    [node |-> "script", written |-> "canonical", line |-> Line("js", 24, 0)]>>
    /\ ret = << <<Line("paragraph", 120, 0)>> >>

----------------------------------------------------------------------------
\* Claims about wait_for_page_load (specification Spec).

ChallengeSteps == {"settle", "cookie", "extra"}

\* C19: the branches of the page load.  A failed probe counts as false.  After
\* a challenge probe that reported a challenge the loader sleeps the settle
\* interval, then probes for the cookie, sleeps the additional interval if and
\* only if the cookie was not found, and never performs the readiness wait;
\* after a challenge probe that reported none it performs the readiness wait
\* and none of the challenge steps.
C19_PageLoadBranches ==
    \A c \in Calls :
        /\ "probe" \in failed[c] => "is_challenge" \notin seen[c]
        /\ "cookie" \in failed[c] => "has_cookie" \notin seen[c]
        /\ pc[c] = "settle" =>
              "is_challenge" \in seen[c] /\ did[c] \cap (ChallengeSteps \cup {"ready"}) = {}
        /\ pc[c] = "extra" =>
              /\ "is_challenge" \in seen[c] /\ "has_cookie" \notin seen[c]
              /\ {"settle", "cookie"} \subseteq did[c]
              /\ did[c] \cap {"extra", "ready"} = {}
        /\ pc[c] = "ready" =>
              "is_challenge" \notin seen[c] /\ did[c] \cap ChallengeSteps = {}
        /\ (pc[c] \in {"content", "close", "done"} /\ "probe" \in did[c]) =>
              IF "is_challenge" \in seen[c]
              THEN /\ {"settle", "cookie"} \subseteq did[c]
                   /\ "ready" \notin did[c]
                   /\ "extra" \in did[c] <=> "has_cookie" \notin seen[c]
              ELSE /\ "ready" \in did[c]
                   /\ did[c] \cap ChallengeSteps = {}

\* A call returned after a challenge whose cookie probe failed: it slept the
\* additional interval.
C19_Witness ==
    \E c \in Calls :
        /\ pc[c] = "done"
        /\ "is_challenge" \in seen[c]
        /\ "cookie" \in failed[c]
        /\ "extra" \in did[c]

\* A call returned after a challenge whose cookie was found, and another
\* after a failed challenge probe and the readiness wait.
C19_WitnessOtherBranches ==
    \E c, d \in Calls :
        /\ pc[c] = "done" /\ seen[c] = {"is_challenge", "has_cookie"}
        /\ pc[d] = "done" /\ "probe" \in failed[d] /\ "ready" \in did[d]

\* C20: a call in the readiness wait whose 2000 ms have elapsed is not held
\* there by a load signal that has not arrived: it can go on to the content
\* fetch.
C20_ReadinessWaitAbandonedAtTimeout ==
    \A c \in Calls :
        (pc[c] = "ready" /\ readiness[c] = "timed_out") => ENABLED Ready(c)

\* Leaving the readiness wait takes the answer of the evaluate: a call goes
\* from the readiness wait to the content fetch only once that has returned.
C20_ReadinessWaitEndsWithEvaluate ==
    [][\A c \in Calls : (pc[c] = "ready" /\ pc'[c] # "ready") => readiness[c] = "answered"]_vars

----------------------------------------------------------------------------
\* Claims about the scheduling of a batch (specification Spec).

\* The call waits for a timer or for the guard: its future is pending.
WaitsOnTimer(c) == pc[c] \in Pending

\* The call waits for the browser: it is inside the evaluate of the
\* readiness wait, which has not returned.
WaitsOnBrowser(c) == pc[c] = "ready" /\ readiness[c] # "answered"

\* The step the call takes when the timer it sleeps on is over.
TimerStep(d) == Acquire(d) \/ Block(d) \/ Cookie(d) \/ ExtraDone(d)

\* Calls of one batch: polled by the same task.
Siblings(c, d) == c # d /\ pc[c] # "idle" /\ pc[d] # "idle" /\ task[c] = task[d]

\* Call d sleeps on a timer, and no third call of the batch is being polled.
CouldStepBeside(c, d) ==
    Siblings(c, d) /\ pc[d] \in {"delay", "settle", "extra"} /\ cur[task[d]] \in {0, c}

\* C21: every wait on browser I/O and every timer wait inside scrape_text is a
\* suspension point: while one call of a batch waits on it, a sibling call
\* whose timer is over is able to take its step.
C21_WaitsAreSuspensionPoints ==
    \A c, d \in Calls :
        (CouldStepBeside(c, d) /\ (WaitsOnTimer(c) \/ WaitsOnBrowser(c)))
            => ENABLED TimerStep(d)

\* The part of C21 about timers: while a call sleeps, or waits for the guard,
\* a sibling whose timer is over is able to take its step.
C21_TimersAreSuspensionPoints ==
    \A c, d \in Calls :
        (CouldStepBeside(c, d) /\ WaitsOnTimer(c)) => ENABLED TimerStep(d)

\* A call sleeps the settle interval while a sibling sleeps its politeness delay.
C21_WitnessTimers ==
    \E c, d \in Calls : Siblings(c, d) /\ pc[c] = "settle" /\ pc[d] = "delay"

----------------------------------------------------------------------------
\* Claims about the stored browser handle (specification Spec).

\* C22: once the service is up, the stored browser handle changes only in
\* the step *browser = new_browser of a call that holds the guard, whose
\* first new_tab failed and whose relaunch succeeded; a call whose first
\* new_tab succeeded, and any call past the critical section, leaves it as it is.
C22_HandleChangesOnlyOnRecovery ==
    [][(app = "ready" /\ browser' # browser) =>
          \E c \in Calls :
              /\ pc[c] = "replace" /\ pc'[c] = "retry"
              /\ guard = c
              /\ tab[c] = 0
              /\ opens[c] = 1 /\ launches[c] = 1
              /\ new_browser[c] # 0 /\ browser' = new_browser[c]
              /\ \A d \in Calls : d # c => pc'[d] = pc[d]]_vars

\* A call has returned after recreating the browser, another after opening its
\* tab at the first attempt.
C22_Witness ==
    \E c, d \in Calls :
        /\ pc[c] = "done" /\ tab[c] # 0 /\ launches[c] = 1 /\ browser # 1
        /\ pc[d] = "done" /\ tab[d] # 0 /\ launches[d] = 0

\* The outcome of the navigate, wait and extract steps of a call: the first
\* of them that failed, or the text.
PrimaryKind(c) ==
    IF "navigate" \in failed[c] THEN "NavigationFailed"
    ELSE IF "content" \in failed[c] THEN "ContentFailed"
    ELSE "Ok"

\* C23: the value scrape_text returns is the outcome of its navigate, wait
\* and extract steps; close_target does not change the result it finds, so a
\* failed close neither turns a text into an error nor replaces the error.
C23_CloseNeverMasksResult ==
    /\ [](\A c \in Calls : (pc[c] = "done" /\ tab[c] # 0) => result[c].kind = PrimaryKind(c))
    /\ [][\A c \in Calls : (pc[c] = "close" /\ pc'[c] = "done") => result'[c] = result[c]]_vars

\* Two calls have returned after a failed close: one with its text, one with
\* its navigation error.
C23_Witness ==
    \E c, d \in Calls :
        /\ pc[c] = "done" /\ "close" \in failed[c] /\ result[c].kind = "Ok"
        /\ pc[d] = "done" /\ "close" \in failed[d] /\ result[d].kind = "NavigationFailed"

\* The call holds a tab of a browser that is no longer the stored one.
Orphaned(d) == pc[d] \in NavPcs /\ tab[d] # 0 /\ tabs[tab[d]].proc # browser

\* The call is over: it returned, or its caller dropped it.
Finished(d) == pc[d] \in {"done", "cancelled"}

\* C24: the step that replaces the stored handle discards the old browser:
\* its process is gone and none of its tabs is open any more, also those
\* held by other calls in flight.  Each such call still comes to its end, and
\* when it returns it has invoked close_target on its own tab exactly once.
C24_RecreationIsDestructive ==
    /\ [][\A c \in Calls :
            (pc[c] = "replace" /\ pc'[c] = "retry") =>
                /\ browser \in DOMAIN procs => ~procs'[browser]
                /\ \A t \in DOMAIN tabs :
                      tabs[t].proc = browser => ~(tabs'[t].open /\ procs'[tabs'[t].proc])]_vars
    /\ [](\A d \in Calls : closes[d] <= 1 /\ (pc[d] = "done" /\ tab[d] # 0 => closes[d] = 1))
    /\ \A d \in Calls : Orphaned(d) ~> Finished(d)

\* A call has just replaced the stored handle while another call, past its
\* navigation, holds a tab of the old browser.
C24_Witness ==
    \E c, d \in Calls :
        /\ pc[c] = "retry"
        /\ Orphaned(d) /\ "navigate" \in did[d] /\ closes[d] = 0
        /\ ~TabOpen(tab[d])

\* Such a call has returned, with an error and after one close_target.
C24_WitnessReturned ==
    \E c, d \in Calls :
        /\ launches[c] = 1 /\ pc[c] = "done"
        /\ pc[d] = "done" /\ tab[d] # 0 /\ tabs[tab[d]].proc # browser
        /\ result[d].kind = "ContentFailed" /\ closes[d] = 1

----------------------------------------------------------------------------
\* Claims about clean_text (specification SpecExtract).

RECURSIVE IsSubsequence(_, _)
\* The lines of a are lines of b, in the order of b.
IsSubsequence(a, b) ==
    IF a = <<>> THEN TRUE
    ELSE IF b = <<>> THEN FALSE
    ELSE IF Head(a) = Head(b) THEN IsSubsequence(Tail(a), Tail(b))
    ELSE IsSubsequence(a, Tail(b))

\* The trimmed lines of the document extract_text reads, in document order.
SourceLines(html) ==
    LET clean_doc == parse_document(cleaned_html(html))
        all_text == text_nodes(clean_doc.main \o clean_doc.body)
    IN  [i \in DOMAIN all_text |->
            Line(all_text[i].s, all_text[i].len - all_text[i].pad, 0)]

\* The returned lines have no blanks at their ends, are lines of the
\* document in document order, and clean_text leaves them as they are.
TrimmedOrderedStable ==
    ret # <<>> =>
        /\ \A i \in DOMAIN ret[1] : ret[1][i].pad = 0
        /\ IsSubsequence(ret[1], SourceLines(arg))
        /\ clean_text(ret[1]) = ret[1]

\* C26 (as stated): the returned text has no empty line and no line of 2 or
\* fewer characters, no line has blanks at its ends, the lines are in their
\* original order, and clean_text applied to it leaves it unchanged.
C26_OutputNormalized ==
    /\ TrimmedOrderedStable
    /\ ret # <<>> =>
          \A i \in DOMAIN ret[1] : ret[1][i].len # 0 /\ chars_count(ret[1][i]) > min_line_len

\* The same with the length of a line counted in bytes, as str::len does.
C26_OutputNormalizedInBytes ==
    /\ TrimmedOrderedStable
    /\ ret # <<>> => \A i \in DOMAIN ret[1] : ret[1][i].len > min_line_len

\* A padded title was returned trimmed, after a line that was dropped.
C26_WitnessInBytes ==
    /\ ret # <<>>
    /\ arg.main = <<>>
    /\ Len(arg.body) = 2
    /\ arg.body[1].line = Line("dash", 4, 2)
    /\ arg.body[2].line = Line("title", 12, 2)
    /\ ret[1] = <<Line("title", 10, 0)>>

----------------------------------------------------------------------------
\* Claims about a failed recovery.

\* The call returned from a failed Browser::new.
RelaunchFailed(c) == pc[c] = "done" /\ launches[c] = 1 /\ opens[c] = 1

\* C27: the step in which Browser::new fails during recovery ends the call
\* with an error, creates no tab, leaves the stored handle as it is and
\* releases the guard; from its first new_tab to that step the call held the
\* guard; a call that returned this way has no tab and holds no guard, and
\* any call that comes to the recovery afterwards launches a browser itself.
C27_FailedRelaunchLeavesNoTrace ==
    /\ [][\A c \in Calls :
            (pc[c] = "recreate" /\ pc'[c] = "done") =>
                /\ result'[c].kind = "BrowserUnavailable"
                /\ tabs' = tabs /\ tab'[c] = 0
                /\ browser' = browser
                /\ guard = c /\ guard' = 0]_vars
    /\ [](\A c \in Calls :
            /\ pc[c] \in {"new_tab", "recreate"} => guard = c
            /\ RelaunchFailed(c) =>
                  /\ tab[c] = 0 /\ closes[c] = 0 /\ guard # c
                  /\ result[c].kind = "BrowserUnavailable"
                  /\ \A d \in Calls : pc[d] = "recreate" => ENABLED Relaunch(d))

\* A call returned from a failed relaunch, and a later call launched a browser
\* of its own.
C27_Witness ==
    \E c, d \in Calls :
        /\ c # d
        /\ RelaunchFailed(c) /\ result[c].kind = "BrowserUnavailable"
        /\ launches[d] = 1 /\ pc[d] = "replace" /\ guard = d

----------------------------------------------------------------------------
\* Claims about the browser guard.

\* The call was started and is neither over nor dropped.
InFlight(c) == pc[c] \notin {"idle", "done", "cancelled"}

\* C28: the guard is held only inside the block that yields `tab`, by a call
\* its task is polling, never by a call that is pending at a suspension
\* point, returned or dropped; the holder releases it, on the error returns
\* too; a call waiting for the guard gets it unless its caller drops it; and
\* while a call is in flight some call can take a step, whether the calls
\* share a task or not.
C28_GuardAlwaysReleased ==
    /\ [](\A c \in Calls :
            /\ guard = c => (pc[c] \in CritPcs /\ cur[task[c]] = c)
            /\ pc[c] \in Pending \cup {"done", "cancelled"} => guard # c
            /\ InFlight(c) => \E d \in Calls : ENABLED CallStep(d))
    /\ \A c \in Calls : (guard = c) ~> (guard # c)
    /\ \A c \in Calls : (pc[c] = "lockwait") ~> (guard = c \/ pc[c] = "cancelled")

\* A call waits for the guard, and the holder has released it by returning
\* from a failed relaunch.
C28_Witness ==
    \E c, d \in Calls :
        /\ pc[c] = "lockwait" /\ guard = 0
        /\ RelaunchFailed(d)

\* Two calls of one task are in flight, one of them inside the block.
C28_WitnessOneTask ==
    \E c, d \in Calls :
        /\ c # d /\ task[c] = task[d]
        /\ guard = c /\ pc[d] \in Pending

----------------------------------------------------------------------------
\* Claims about concurrent recovery.

RECURSIVE LaunchesOf(_)
\* How many times the calls of S ran Browser::new.
LaunchesOf(S) ==
    IF S = {} THEN 0
    ELSE LET c == CHOOSE x \in S : TRUE IN launches[c] + LaunchesOf(S \ {c})

\* Nothing failed but the stored browser, once: the relaunched one is healthy.
OnlyStoredBrowserFailed == faults <= 1

\* C29: when nothing fails but the stored browser, once, the calls run
\* Browser::new at most once in total.  A call whose first new_tab failed
\* launches the browser and replaces the handle; that makes the total one,
\* and every call that holds a tab of the new browser without being the one
\* that launched it opened that tab with its first new_tab.
C29_RelaunchedOnce ==
    /\ [](OnlyStoredBrowserFailed =>
            /\ LaunchesOf(Calls) <= 1
            /\ \A c \in Calls :
                  (tab[c] # 0 /\ tabs[tab[c]].proc # 1) =>
                      /\ LaunchesOf(Calls) = 1
                      /\ tabs[tab[c]].proc = browser
                      /\ launches[c] = 0 => opens[c] = 1)
    /\ [][\A c \in Calls :
            (faults' <= 1 /\ pc[c] = "recreate" /\ pc'[c] # "recreate") =>
                pc'[c] = "replace" /\ launches'[c] = 1]_vars
    /\ [][\A c \in Calls :
            (faults' <= 1 /\ pc[c] = "replace" /\ pc'[c] # "replace") =>
                browser' = new_browser[c] /\ procs'[browser']]_vars

\* The stored browser died; one call relaunched it and holds a tab of the new
\* one, and another call, still in flight, opened its tab on the new one at
\* its first attempt.
C29_Witness ==
    \E c, d \in Calls :
        /\ OnlyStoredBrowserFailed /\ ~Alive(1)
        /\ pc[c] \in NavPcs /\ launches[c] = 1 /\ opens[c] = 2
        /\ pc[d] \in NavPcs /\ launches[d] = 0 /\ opens[d] = 1
        /\ tab[c] # 0 /\ tab[d] # 0
        /\ tabs[tab[c]].proc = browser /\ tabs[tab[d]].proc = browser

----------------------------------------------------------------------------
\* Claims about the batch of scrapes (specification SpecRun).

\* The scrapes of the batch that have not completed.
StillScraping == {i \in DOMAIN scraped : scraped[i] = NoResult}

\* C30: when run has returned after starting a batch, with success or with
\* "Failed to scrape", every scrape_text call of the batch has completed
\* (and so has run its close_target, see C1); the completion of a scrape with
\* an error leaves run waiting and the other scrapes as they are, and each
\* of them can still complete.
C30_RunWaitsForEveryScrape ==
    /\ [](run_pc = "done" /\ invoked # <<>> =>
            DOMAIN scraped = DOMAIN invoked /\ StillScraping = {})
    /\ [](run_pc = "join" => \A j \in StillScraping : ENABLED ScrapeReturns(j))
    /\ [][\A i \in StillScraping :
            (i \in DOMAIN scraped' /\ scraped'[i].kind = "Err") =>
                /\ run_pc' = "join"
                /\ \A j \in DOMAIN scraped \ {i} : scraped'[j] = scraped[j]]_vars

\* run returned "Failed to scrape" for a batch of three whose first scrape
\* failed and whose other two completed with a text.
C30_Witness ==
    /\ run_pc = "done"
    /\ run_result = TaskExecutionFailed("Failed to scrape")
    /\ Len(scraped) = 3
    /\ scraped[1].kind = "Err" /\ scraped[2].kind = "Ok" /\ scraped[3].kind = "Ok"

\* One scrape of the batch has failed and run still waits for another.
C30_WitnessWaiting ==
    /\ run_pc = "join"
    /\ \E i \in DOMAIN scraped : scraped[i].kind = "Err"
    /\ StillScraping # {}

\* In the scraper: when every call of a task's batch has returned, each call
\* that obtained a tab has invoked close_target once, and the step in which a
\* call returns leaves the other calls where they are.
C30_BatchCallsRanClose ==
    /\ [](\A c \in Calls :
            (pc[c] = "done" /\ \A d \in Calls : task[d] = task[c] => pc[d] \in {"idle", "done"})
                => \A d \in Calls :
                      (task[d] = task[c] /\ pc[d] = "done" /\ tab[d] # 0) => closes[d] = 1)
    /\ [][\A c \in Calls :
            (pc[c] # "done" /\ pc'[c] = "done") =>
                \A d \in Calls \ {c} : pc'[d] = pc[d]]_vars
====
